---------------------------- MODULE Spec2Model ----------------------------
(***************************************************************************)
(* Model of odata-rust-generator (src/src/main.rs): the pass that turns a  *)
(* parsed OData metadata document into a tree of Rust declarations.        *)
(*                                                                         *)
(* Strings are sequences of tokens.  Identifiers that the program          *)
(* lower-cases, splits or strips are spelled one character per token;      *)
(* literals of the program's format strings are one token each.            *)
(* Option<T> is a sequence of length zero (None) or one (Some).            *)
(***************************************************************************)
EXTENDS Integers, Sequences, FiniteSets, TLC

(***************************************************************************)
(* Bounds of the model.                                                    *)
(***************************************************************************)
MaxSchemas == 1

MaxEntities == 2

MaxProps == 2

MaxNavs == 2

MaxAssocs == 1

(***************************************************************************)
(* Option and string helpers (Rust std).                                   *)
(***************************************************************************)
None == <<>>

Some(x) == <<x>>

IsSome(o) == Len(o) = 1

Unwrap(o) == o[1]

UpperChars == {"A", "B", "I", "P", "T"}

\* char::to_lowercase on the alphabet of the model
LowerChar(c) ==
    CASE c = "A" -> "a"
      [] c = "B" -> "b"
      [] c = "I" -> "i"
      [] c = "P" -> "p"
      [] c = "T" -> "t"
      [] OTHER -> c

\* str::to_lowercase
to_lowercase(s) == [i \in 1..Len(s) |-> LowerChar(s[i])]

\* s.chars().any(char::is_uppercase)
any_uppercase(s) == \E i \in 1..Len(s) : s[i] \in UpperChars

\* str::split('.'): the pieces between the dots, at least one piece
RECURSIVE split_dot(_)
split_dot(s) ==
    IF \A i \in 1..Len(s) : s[i] # "."
    THEN <<s>>
    ELSE LET d == CHOOSE i \in 1..Len(s) :
                      /\ s[i] = "."
                      /\ \A j \in 1..(i - 1) : s[j] # "."
         IN  <<SubSeq(s, 1, d - 1)>> \o split_dot(SubSeq(s, d + 1, Len(s)))

\* [String]::join(sep)
RECURSIVE join(_, _)
join(parts, sep) ==
    IF Len(parts) = 0 THEN <<>>
    ELSE IF Len(parts) = 1 THEN parts[1]
    ELSE parts[1] \o sep \o join(Tail(parts), sep)

\* Pattern::strip_prefix_of: the haystack without the prefix, if it starts with it
strip_prefix_of(prefix, haystack) ==
    IF /\ Len(prefix) <= Len(haystack)
       /\ SubSeq(haystack, 1, Len(prefix)) = prefix
    THEN Some(SubSeq(haystack, Len(prefix) + 1, Len(haystack)))
    ELSE None

\* Vec::pop on a path: all but the last element
pop(v) == IF Len(v) = 0 THEN v ELSE SubSeq(v, 1, Len(v) - 1)

\* concatenation of a sequence of sequences
RECURSIVE flatten(_)
flatten(ss) == IF Len(ss) = 0 THEN <<>> ELSE ss[1] \o flatten(Tail(ss))

\* all sequences over S of length at most n
SeqsUpTo(S, n) == UNION {[1..k -> S] : k \in 0..n}

(***************************************************************************)
(* const KEYWORDS                                                          *)
(***************************************************************************)
KEYWORDS == {<<"t", "y", "p", "e">>}

PropertyTypes ==
    {"Binary", "Boolean", "Byte", "DateTime", "DateTimeOffset",
     "Decimal", "Double", "Int16", "Int32", "String"}

(***************************************************************************)
(* fn edm_type_to_rust_type                                                *)
(***************************************************************************)
edm_type_to_rust_type(property) ==
    LET inner ==
            CASE property.inner = "Binary" -> <<"Vec<u8>">>
              [] property.inner = "Boolean" -> <<"bool">>
              [] property.inner = "Byte" -> <<"u8">>
              [] property.inner = "DateTime" -> <<"chrono::NaiveDateTime">>
              [] property.inner = "DateTimeOffset" -> <<"std::time::Duration">>
              [] property.inner = "Decimal" -> <<"f64">>
              [] property.inner = "Double" -> <<"f64">>
              [] property.inner = "Int16" -> <<"i16">>
              [] property.inner = "Int32" -> <<"i32">>
              [] property.inner = "String" -> <<"String">>
    IN  IF property.nullable
        THEN <<"Option<">> \o inner \o <<">">>
        ELSE inner

(***************************************************************************)
(* fn entity_type_reflection: one descriptor per property, in order.  The  *)
(* text "(name, crate::OpenDataType::Tag { nullable, key })" is kept as a  *)
(* record.                                                                 *)
(***************************************************************************)
\* a variant that compares the key's name without regard to case
FieldDescriptorIgnoringCase(entity, property) ==
    [name |-> property.name,
     tag |-> property.inner,
     nullable |-> property.nullable,
     key |-> (to_lowercase(entity.key.property_ref.name) = to_lowercase(property.name))]

FieldDescriptor(entity, property) ==
    [name |-> property.name,
     tag |-> property.inner,
     nullable |-> property.nullable,
     key |-> (entity.key.property_ref.name = property.name)]

entity_type_reflection(entity) ==
    [i \in 1..Len(entity.properties) |->
        FieldDescriptor(entity, entity.properties[i])]

(***************************************************************************)
(* fn lookup_entity_type                                                   *)
(***************************************************************************)
\* the ends in the order the two nested loops visit them
EndsInScanOrder(schema) ==
    flatten([a \in 1..Len(schema.associations) |-> schema.associations[a].ends])

\* the conditions under which the loops return at an end
EndMatches(end, navigation_property) ==
    /\ IsSome(end.role)
    /\ Unwrap(end.role) = navigation_property.to_role
    /\ IsSome(end.entity_type)

\* the value returned at the end the loops stop on
EndResult(schema, end) ==
    LET namespace == schema.namespace \o <<".">>
        name == strip_prefix_of(namespace, Unwrap(end.entity_type))
    IN  IF IsSome(name) /\ IsSome(end.multiplicity)
        THEN Some(<<Unwrap(name), Unwrap(end.multiplicity)>>)
        ELSE None

\* a variant in which a later matching end overrides an earlier one
lookup_last_match(schema, navigation_property) ==
    LET ends == EndsInScanOrder(schema)
        hits == {i \in 1..Len(ends) : EndMatches(ends[i], navigation_property)}
    IN  IF hits = {}
        THEN None
        ELSE EndResult(schema, ends[CHOOSE i \in hits : \A j \in hits : i >= j])

lookup_entity_type(schema, navigation_property) ==
    LET ends == EndsInScanOrder(schema)
        hits == {i \in 1..Len(ends) : EndMatches(ends[i], navigation_property)}
    IN  IF hits = {}
        THEN None
        ELSE EndResult(schema, ends[CHOOSE i \in hits : \A j \in hits : i <= j])


(***************************************************************************)
(* The parsed document (odata_parser_rs::Edmx), the options, and the       *)
(* position of print_structure in its loops.                               *)
(***************************************************************************)
VARIABLES
    project,            \* Edmx: schemas and the default schema, if any
    opts,               \* Opts: the four generation flags
    root,               \* codegen::Scope tree: module path -> scope
    contains_non_ascii, \* the accumulator of the module loop
    head,               \* path of the module the current schema writes to
    si,                 \* index of the current schema
    ei,                 \* index of the current entity
    pc,                 \* position in print_structure
    output,             \* what was printed or written, if anything
    arg,                \* argument of a function exercised on its own
    ret                 \* its return value

vars ==
    <<project, opts, root, contains_non_ascii, head, si, ei, pc, output, arg, ret>>

(***************************************************************************)
(* codegen: scopes, items, imports.                                        *)
(***************************************************************************)
EmptyScope == [items |-> <<>>, imports |-> <<>>]

\* Scope::push_fn / new_struct / new_impl / ...: append an item
PushItem(tree, path, item) ==
    [tree EXCEPT ![path].items = Append(@, item)]

\* Scope::import(path, ty).vis("pub"): one import per (path, ty)
Import(tree, at, path, ty) ==
    LET imp == [path |-> path, ty |-> ty, vis |-> "pub"]
    IN  IF \E i \in 1..Len(tree[at].imports) : tree[at].imports[i] = imp
        THEN tree
        ELSE [tree EXCEPT ![at].imports = Append(@, imp)]

\* get_or_new_module(name) followed by vis("pub")
get_or_new_module(tree, parent, name) ==
    LET child == Append(parent, name)
    IN  IF child \in DOMAIN tree
        THEN tree
        ELSE [p \in DOMAIN tree \cup {child} |->
                 IF p = child THEN EmptyScope
                 ELSE IF p = parent
                      THEN [tree[p] EXCEPT !.items =
                               Append(@, [kind |-> "module", name |-> name,
                                          vis |-> "pub"])]
                      ELSE tree[p]]

\* the chain of modules for the path segments, from the root down
RECURSIVE ModuleChain(_, _, _)
ModuleChain(tree, parent, segments) ==
    IF Len(segments) = 0
    THEN tree
    ELSE ModuleChain(get_or_new_module(tree, parent, Head(segments)),
                     Append(parent, Head(segments)), Tail(segments))

\* schema.namespace.split('.').map(str::to_lowercase)
PathSegments(namespace) ==
    LET parts == split_dot(namespace)
    IN  [i \in 1..Len(parts) |-> to_lowercase(parts[i])]

(***************************************************************************)
(* print_structure, lines 152-233: header, helper function, reflection     *)
(* trait and enum.                                                         *)
(***************************************************************************)
PreludeItems(o) ==
    <<[kind |-> "raw", name |-> "header"]>>
    \o (IF ~o.no_empty_string_is_null
        THEN <<[kind |-> "fn", name |-> "empty_string_as_none",
                attr |-> "cfg(feature = \"serde\")"]>>
        ELSE <<>>)
    \o (IF ~o.no_reflection
        THEN <<[kind |-> "trait", name |-> "OpenDataModel",
                fns |-> <<"name", "fields", "relations">>],
               [kind |-> "enum", name |-> "OpenDataType",
                variants |-> <<"Binary", "Boolean", "Byte", "DateTime",
                               "DateTimeOffset", "Decimal", "Double",
                               "Int16", "Int32", "String">>]>>
        ELSE <<>>)

(***************************************************************************)
(* print_structure, lines 247-263: the entity_types function.              *)
(***************************************************************************)
EntityTypesFn(schema) ==
    [kind |-> "fn", name |-> "entity_types",
     attr |-> "cfg(feature = \"reflection\")",
     lines |-> [e \in 1..Len(schema.entities) |->
                   [name |-> schema.entities[e].name,
                    fields |-> entity_type_reflection(schema.entities[e])]]]

(***************************************************************************)
(* print_structure, lines 274-300: the field of a property.                *)
(***************************************************************************)
SerdeAnnotation(what, value, default) ==
    [cfg_attr |-> "serde", serde |-> what, value |-> value, default |-> default]

PropertyFieldName(property) ==
    IF property.name \in KEYWORDS
    THEN <<"pub ", "r#">> \o to_lowercase(property.name)
    ELSE <<"pub ">> \o to_lowercase(property.name)

PropertyAnnotations(o, property) ==
    LET typename == edm_type_to_rust_type(property)
    IN  (IF ~o.no_empty_string_is_null /\ typename = <<"Option<", "String", ">">>
         THEN <<SerdeAnnotation("deserialize_with",
                                <<"crate::empty_string_as_none">>, FALSE)>>
         ELSE <<>>)
        \o (IF any_uppercase(property.name)
            THEN <<SerdeAnnotation("rename", property.name, FALSE)>>
            ELSE <<>>)

PropertyField(o, property) ==
    [name |-> PropertyFieldName(property),
     ty |-> edm_type_to_rust_type(property),
     annotation |-> PropertyAnnotations(o, property)]

(***************************************************************************)
(* print_structure, lines 266-272: the struct and its macros.              *)
(***************************************************************************)
StructMacros(o) ==
    <<"#[derive(Debug)]">>
    \o (IF ~o.no_serde
        THEN <<"#[cfg_attr(feature = \"serde\", derive(serde::Serialize, serde::Deserialize))]">>
        ELSE <<>>)

\* a variant that pushes the fields of the properties in reverse order
NewStructReversed(o, entity) ==
    [kind |-> "struct", name |-> entity.name, vis |-> "pub",
     macros |-> StructMacros(o),
     fields |-> [i \in 1..Len(entity.properties) |->
                    PropertyField(o, entity.properties[Len(entity.properties) + 1 - i])]]

NewStruct(o, entity) ==
    [kind |-> "struct", name |-> entity.name, vis |-> "pub",
     macros |-> StructMacros(o),
     fields |-> [i \in 1..Len(entity.properties) |->
                    PropertyField(o, entity.properties[i])]]

(***************************************************************************)
(* print_structure, lines 303-331: the field of a navigation property,     *)
(* given the pair lookup_entity_type resolved it to.                       *)
(***************************************************************************)
NavigationTypename(resolved) ==
    IF resolved[2] = <<"0..1">>
    THEN <<"Option<Box<">> \o resolved[1] \o <<">>">>
    ELSE <<"Vec<">> \o resolved[1] \o <<">">>

NavigationFieldName(navigation_property) ==
    IF navigation_property.name \in KEYWORDS
    THEN <<"pub ", "r#">> \o to_lowercase(navigation_property.name)
    ELSE <<"pub ">> \o to_lowercase(navigation_property.name)

NavigationAnnotations(navigation_property) ==
    IF any_uppercase(navigation_property.name)
    THEN <<SerdeAnnotation("rename", navigation_property.name, TRUE)>>
    ELSE <<>>

NavigationField(navigation_property, resolved) ==
    [name |-> NavigationFieldName(navigation_property),
     ty |-> NavigationTypename(resolved),
     annotation |-> NavigationAnnotations(navigation_property)]

\* the navigation properties on which lookup_entity_type(..).unwrap() panics
Unresolved(schema, entity) ==
    {i \in 1..Len(entity.navigations) :
        ~IsSome(lookup_entity_type(schema, entity.navigations[i]))}

\* the fields pushed for the first n navigation properties
NavigationFields(schema, entity, n) ==
    [i \in 1..n |->
        NavigationField(entity.navigations[i],
                        Unwrap(lookup_entity_type(schema, entity.navigations[i])))]

(***************************************************************************)
(* print_structure, lines 334-365: the impl of crate::OpenDataModel.       *)
(***************************************************************************)
Expansions(schema, entity) ==
    [i \in 1..Len(entity.navigations) |->
        <<entity.navigations[i].name,
          Unwrap(lookup_entity_type(schema, entity.navigations[i]))[1]>>]

NewImpl(o, schema, entity) ==
    [kind |-> "impl", target |-> entity.name, trait |-> "crate::OpenDataModel",
     name |-> entity.name,
     fields |-> entity_type_reflection(entity),
     relations |-> IF ~o.no_expand
                   THEN Some(Expansions(schema, entity))
                   ELSE None]

(***************************************************************************)
(* print_structure, lines 368-377: the re-exports of the entity sets.      *)
(***************************************************************************)
EntitySetImportPath(set) ==
    <<"crate::">> \o join(pop(PathSegments(set.entity_type)), <<"::">>)

RECURSIVE ImportEntitySets(_, _, _)
ImportEntitySets(tree, at, sets) ==
    IF Len(sets) = 0
    THEN tree
    ELSE ImportEntitySets(
             Import(tree, at, EntitySetImportPath(Head(sets)), Head(sets).name),
             at, Tail(sets))

(***************************************************************************)
(* print_structure, lines 380-383: the wildcard import of the default      *)
(* schema.                                                                 *)
(***************************************************************************)
DefaultImportPath(schema) == to_lowercase(schema.namespace)

ImportDefault(tree, p) ==
    IF IsSome(p.default_schema)
    THEN Import(tree, <<>>,
                DefaultImportPath(p.schemas[Unwrap(p.default_schema)]), <<"*">>)
    ELSE tree


(***************************************************************************)
(* The documents and options the model runs print_structure on.            *)
(***************************************************************************)
Property(name, inner, nullable) ==
    [name |-> name, inner |-> inner, nullable |-> nullable]

NavigationProperty(name, to_role) == [name |-> name, to_role |-> to_role]

End(role, entity_type, multiplicity) ==
    [role |-> role, entity_type |-> entity_type, multiplicity |-> multiplicity]

EntitySet(name, entity_type) == [name |-> name, entity_type |-> entity_type]

\* the qualified name of an entity type of a namespace
Qualified(namespace, name) == namespace \o <<".">> \o name

Namespaces == {<<"T">>, <<"A", ".", "B">>}

EntityNames == {<<"P">>}

KeyNames == {<<"I", "d">>}

SampleProperties ==
    {Property(<<"T", "y", "p", "e">>, "String", TRUE),
     Property(<<"t", "y", "p", "e">>, "Int32", FALSE),
     Property(<<"I", "d">>, "Int32", FALSE)}

SampleNavigations ==
    {NavigationProperty(<<"I", "t", "e", "m", "s">>, <<"r1">>),
     NavigationProperty(<<"t", "y", "p", "e">>, <<"r2">>)}

Entities ==
    [name : EntityNames,
     properties : SeqsUpTo(SampleProperties, MaxProps),
     key : [property_ref : [name : KeyNames]],
     navigations : SeqsUpTo(SampleNavigations, MaxNavs)]

RECURSIVE TotalLen(_, _)
TotalLen(entities, field) ==
    IF Len(entities) = 0 THEN 0
    ELSE Len(Head(entities)[field]) + TotalLen(Tail(entities), field)

\* the entity lists of a document with at most MaxProps properties and
\* MaxNavs navigation properties in all
EntityLists ==
    {es \in SeqsUpTo(Entities, MaxEntities) :
        /\ TotalLen(es, "properties") <= MaxProps
        /\ TotalLen(es, "navigations") <= MaxNavs}

\* association lists of a namespace: role r1 always resolves, role r2 resolves
\* in the first list only
SampleAssociationLists(namespace) ==
    LET target == Some(Qualified(namespace, <<"P">>))
    IN  {<<[ends |-> <<End(Some(<<"r1">>), target, Some(<<"0..1">>)),
                       End(Some(<<"r2">>), target, Some(<<"*">>))>>]>>,
         <<[ends |-> <<End(Some(<<"r1">>), target, Some(<<"1">>)),
                       End(None, target, Some(<<"*">>))>>]>>}

\* schema.entity_sets(): none, or one set over P named like the type or not
SampleEntitySets(namespace) ==
    {None,
     Some(<<EntitySet(<<"P">>, Qualified(namespace, <<"P">>))>>),
     Some(<<EntitySet(<<"P", "s">>, Qualified(namespace, <<"P">>))>>)}

Schemas ==
    UNION {[namespace : {ns},
            entities : EntityLists,
            associations : SampleAssociationLists(ns),
            entity_sets : SampleEntitySets(ns)] : ns \in Namespaces}

\* Edmx: data_services.schemas, and what default_schema() finds
Projects ==
    {p \in [schemas : UNION {[1..k -> Schemas] : k \in 1..MaxSchemas},
            default_schema : {None} \cup {Some(i) : i \in 1..MaxSchemas}] :
        IsSome(p.default_schema) => Unwrap(p.default_schema) <= Len(p.schemas)}

Options ==
    [no_serde : BOOLEAN, no_empty_string_is_null : BOOLEAN,
     no_reflection : BOOLEAN, no_expand : BOOLEAN]

(***************************************************************************)
(* print_structure as a state machine.                                     *)
(***************************************************************************)
Idle == <<"idle">>

Init ==
    /\ project \in Projects
    /\ opts \in Options
    /\ root = [p \in {<<>>} |-> EmptyScope]
    /\ contains_non_ascii = FALSE
    /\ head = <<>>
    /\ si = 1
    /\ ei = 1
    /\ pc = "prelude"
    /\ output = None
    /\ arg = Idle
    /\ ret = Idle

CurrentSchema == project.schemas[si]

CurrentEntity == CurrentSchema.entities[ei]

\* lines 152-233
Prelude ==
    /\ pc = "prelude"
    /\ root' = [root EXCEPT ![<<>>].items = @ \o PreludeItems(opts)]
    /\ pc' = "schema"
    /\ UNCHANGED <<project, opts, contains_non_ascii, head, si, ei, output, arg, ret>>

\* lines 235-263: the modules of the schema's namespace, and entity_types
EnterSchema ==
    /\ pc = "schema"
    /\ si <= Len(project.schemas)
    /\ LET segments == PathSegments(CurrentSchema.namespace)
           tree == ModuleChain(root, <<>>, segments)
       IN  /\ head' = segments
           /\ contains_non_ascii' = (contains_non_ascii \/ Len(segments) > 1)
           /\ root' = IF ~opts.no_reflection /\ Len(CurrentSchema.entities) > 0
                      THEN PushItem(tree, segments, EntityTypesFn(CurrentSchema))
                      ELSE tree
    /\ ei' = 1
    /\ pc' = "entity"
    /\ UNCHANGED <<project, opts, si, output, arg, ret>>

\* lines 265-300: the struct with the fields of the properties
DeclareStruct ==
    /\ pc = "entity"
    /\ ei <= Len(CurrentSchema.entities)
    /\ root' = PushItem(root, head, NewStruct(opts, CurrentEntity))
    /\ pc' = "navigations"
    /\ UNCHANGED <<project, opts, contains_non_ascii, head, si, ei, output, arg, ret>>

\* the struct being filled is the item new_struct pushed last
PushFields(tree, at, fields) ==
    [tree EXCEPT ![at].items[Len(tree[at].items)].fields = @ \o fields]

\* lines 302-332: the fields of the navigation properties; unwrap() panics at
\* the first one that does not resolve
ExpandNavigations ==
    /\ pc = "navigations"
    /\ LET failing == Unresolved(CurrentSchema, CurrentEntity)
           first == CHOOSE i \in failing : \A j \in failing : i <= j
       IN  IF opts.no_expand
           THEN /\ pc' = "reflection"
                /\ root' = root
           ELSE IF failing = {}
           THEN /\ pc' = "reflection"
                /\ root' = PushFields(root, head,
                               NavigationFields(CurrentSchema, CurrentEntity,
                                                Len(CurrentEntity.navigations)))
           ELSE /\ pc' = "panicked"
                /\ root' = PushFields(root, head,
                               NavigationFields(CurrentSchema, CurrentEntity,
                                                first - 1))
    /\ UNCHANGED <<project, opts, contains_non_ascii, head, si, ei, output, arg, ret>>

\* lines 334-365: the reflection impl; the relation list is built, and
\* unwrap() called, whether or not relations are emitted
ReflectEntity ==
    /\ pc = "reflection"
    /\ IF opts.no_reflection
       THEN /\ pc' = "entity"
            /\ ei' = ei + 1
            /\ root' = root
       ELSE IF Unresolved(CurrentSchema, CurrentEntity) = {}
       THEN /\ pc' = "entity"
            /\ ei' = ei + 1
            /\ root' = PushItem(root, head,
                                NewImpl(opts, CurrentSchema, CurrentEntity))
       ELSE /\ pc' = "panicked"
            /\ ei' = ei
            /\ root' = root
    /\ UNCHANGED <<project, opts, contains_non_ascii, head, si, output, arg, ret>>

\* lines 368-377, and the step to the next schema
ReexportEntitySets ==
    /\ pc = "entity"
    /\ ei > Len(CurrentSchema.entities)
    /\ root' = IF IsSome(CurrentSchema.entity_sets)
               THEN ImportEntitySets(root, head, Unwrap(CurrentSchema.entity_sets))
               ELSE root
    /\ si' = si + 1
    /\ pc' = "schema"
    /\ UNCHANGED <<project, opts, contains_non_ascii, head, ei, output, arg, ret>>

\* lines 380-390: the default import, then the tree is printed or written
Finish ==
    /\ pc = "schema"
    /\ si > Len(project.schemas)
    /\ root' = ImportDefault(root, project)
    /\ output' = Some(root')
    /\ pc' = "done"
    /\ UNCHANGED <<project, opts, contains_non_ascii, head, si, ei, arg, ret>>

Next ==
    \/ Prelude
    \/ EnterSchema
    \/ DeclareStruct
    \/ ExpandNavigations
    \/ ReflectEntity
    \/ ReexportEntitySets
    \/ Finish

Spec == Init /\ [][Next]_vars


(***************************************************************************)
(* lookup_entity_type and entity_type_reflection exercised on their own,   *)
(* on wider inputs than the documents above.                               *)
(***************************************************************************)
NoProject == [schemas |-> <<>>, default_schema |-> None]

DefaultOptions ==
    [no_serde |-> FALSE, no_empty_string_is_null |-> FALSE,
     no_reflection |-> FALSE, no_expand |-> FALSE]

InitCall(position, arguments) ==
    /\ project = NoProject
    /\ opts = DefaultOptions
    /\ root = [p \in {<<>>} |-> EmptyScope]
    /\ contains_non_ascii = FALSE
    /\ head = <<>>
    /\ si = 1
    /\ ei = 1
    /\ pc = position
    /\ output = None
    /\ arg \in arguments
    /\ ret = Idle

Return(value) ==
    /\ ret' = value
    /\ pc' = "returned"
    /\ UNCHANGED <<project, opts, root, contains_non_ascii, head, si, ei, output, arg>>

LookupEnds ==
    [role : {None, Some(<<"r1">>), Some(<<"r2">>)},
     entity_type : {None, Some(<<"T", ".", "P">>), Some(<<"A", ".", "B", ".", "Q">>)},
     multiplicity : {None, Some(<<"0..1">>), Some(<<"*">>)}]

LookupSchemas ==
    [namespace : Namespaces,
     associations : SeqsUpTo([ends : [1..2 -> LookupEnds]], MaxAssocs)]

LookupArguments ==
    [schema : LookupSchemas,
     navigation_property : {NavigationProperty(<<"I", "t", "e", "m", "s">>, <<"r1">>)}]

InitLookup == InitCall("call_lookup", LookupArguments)

CallLookup ==
    /\ pc = "call_lookup"
    /\ Return(lookup_entity_type(arg.schema, arg.navigation_property))

SpecLookup == InitLookup /\ [][CallLookup]_vars

ReflectionProperties ==
    [name : {<<"I", "d">>, <<"i", "d">>, <<"T", "y", "p", "e">>},
     inner : PropertyTypes,
     nullable : BOOLEAN]

ReflectionEntities ==
    [name : EntityNames,
     properties : SeqsUpTo(ReflectionProperties, MaxProps),
     key : [property_ref : [name : {<<"I", "d">>, <<"T", "y", "p", "e">>}]],
     navigations : {<<>>}]

InitReflection == InitCall("call_reflection", ReflectionEntities)

CallReflection ==
    /\ pc = "call_reflection"
    /\ Return(entity_type_reflection(arg))

SpecReflection == InitReflection /\ [][CallReflection]_vars


(***************************************************************************)
(* Properties of lookup_entity_type (SpecLookup).                          *)
(***************************************************************************)
\* positions, in scan order, of the ends whose role is the navigation
\* property's to_role and that carry an entity-type reference
MatchingEnds ==
    {i \in 1..Len(EndsInScanOrder(arg.schema)) :
        LET end == EndsInScanOrder(arg.schema)[i]
        IN  /\ end.role = Some(arg.navigation_property.to_role)
            /\ end.entity_type # None}

FirstMatchingEnd ==
    EndsInScanOrder(arg.schema)[
        CHOOSE i \in MatchingEnds : \A j \in MatchingEnds : i <= j]

\* ret is the pair (local name, multiplicity) of the end
ReturnsPairOf(end) ==
    /\ IsSome(ret)
    /\ Len(Unwrap(ret)) = 2
    /\ Qualified(arg.schema.namespace, Unwrap(ret)[1]) = Unwrap(end.entity_type)
    /\ Some(Unwrap(ret)[2]) = end.multiplicity

\* the entity-type reference of the end lies in the schema's namespace
InNamespace(end) ==
    LET prefix == arg.schema.namespace \o <<".">>
        ref == Unwrap(end.entity_type)
    IN  /\ Len(ref) >= Len(prefix)
        /\ \A i \in 1..Len(prefix) : ref[i] = prefix[i]

KeyProperties ==
    {i \in 1..Len(arg.properties) :
        arg.properties[i].name = arg.key.property_ref.name}

KeyDescriptors == {i \in 1..Len(ret) : ret[i].key}

OneDescriptorPerProperty ==
    /\ Len(ret) = Len(arg.properties)
    /\ \A i \in 1..Len(ret) :
          /\ ret[i].name = arg.properties[i].name
          /\ ret[i].tag = arg.properties[i].inner
          /\ ret[i].nullable = arg.properties[i].nullable

\* C4, as stated, for the entities that satisfy the data model's invariant
\* (the key names a property of the entity): one descriptor per property in
\* declaration order, and exactly one of them has key = true.
C4_ExactlyOneKey ==
    (pc = "returned" /\ KeyProperties # {}) =>
        /\ OneDescriptorPerProperty
        /\ Cardinality(KeyDescriptors) = 1

\* C4, amended: one descriptor per property in declaration order, and key =
\* true on exactly the descriptors of the properties that carry the key's
\* name; so exactly one is the key when exactly one property carries it.
C4_KeyFlagFollowsName ==
    pc = "returned" =>
        /\ OneDescriptorPerProperty
        /\ KeyDescriptors = KeyProperties
        /\ (Cardinality(KeyProperties) = 1 => Cardinality(KeyDescriptors) = 1)

\* C4, witness: two differently named properties, the second one the key
C4_Witness ==
    /\ pc = "returned"
    /\ Len(arg.properties) = 2
    /\ KeyProperties = {2}
    /\ KeyDescriptors = {2}


(***************************************************************************)
(* Properties of print_structure (Spec).                                   *)
(***************************************************************************)
SchemaIndices == 1..Len(project.schemas)

EntityIndices(s) == 1..Len(project.schemas[s].entities)

\* the module a schema's declarations are written to
Leaf(s) == PathSegments(project.schemas[s].namespace)

\* the struct items of a module, in order
StructsAt(tree, path) ==
    IF path \in DOMAIN tree
    THEN SelectSeq(tree[path].items, LAMBDA item : item.kind = "struct")
    ELSE <<>>

ImplsAt(tree, path) ==
    IF path \in DOMAIN tree
    THEN SelectSeq(tree[path].items, LAMBDA item : item.kind = "impl")
    ELSE <<>>

\* the position, among the structs of its module, of the struct of entity e
\* of schema s: after the entities of the earlier schemas of that namespace
RECURSIVE EntitiesBefore(_, _)
EntitiesBefore(s, path) ==
    IF s = 0 THEN 0
    ELSE EntitiesBefore(s - 1, path)
         + (IF Leaf(s) = path THEN Len(project.schemas[s].entities) ELSE 0)

StructIndex(s, e) == EntitiesBefore(s - 1, Leaf(s)) + e

\* entity e of schema s has been through the property and navigation loops
FieldsComplete(s, e) ==
    \/ pc = "done"
    \/ pc # "done" /\ s < si
    \/ pc \in {"entity", "navigations", "reflection", "panicked"} /\ s = si /\ e < ei
    \/ pc = "reflection" /\ s = si /\ e = ei

\* the navigation properties of the whole document that resolve to no end
UnresolvedPairs ==
    {<<s, e, i>> \in SchemaIndices \X (1..MaxEntities) \X (1..MaxNavs) :
        /\ e \in EntityIndices(s)
        /\ i \in Unresolved(project.schemas[s], project.schemas[s].entities[e])}

\* the name a field is serialized under: its rename, or else its identifier
Identifier(field) ==
    IF Len(field.name) >= 2 /\ field.name[2] = "r#"
    THEN SubSeq(field.name, 3, Len(field.name))
    ELSE SubSeq(field.name, 2, Len(field.name))

Renames(field) ==
    {i \in 1..Len(field.annotation) : field.annotation[i].serde = "rename"}

WireName(field) ==
    IF Renames(field) # {}
    THEN field.annotation[CHOOSE i \in Renames(field) : TRUE].value
    ELSE Identifier(field)

\* C1: with expansion or reflection enabled, a document with unresolved
\* navigation properties ends the run in a reported resolution error that
\* names every failing pair: the run neither panics at the first failing
\* unwrap nor completes as if nothing had failed.
C1_ResolutionErrorReported ==
    (UnresolvedPairs # {} /\ (~opts.no_expand \/ ~opts.no_reflection)) =>
        pc \notin {"panicked", "done"}

\* C3: the struct of every entity that has been through the property and
\* navigation loops has one field per property, in property order, then,
\* unless no_expand is set, one field per navigation property, in order, and
\* no other field; a finished run has declared one struct per entity.
C3_FieldCompleteness ==
    /\ \A s \in SchemaIndices : \A e \in EntityIndices(s) :
          FieldsComplete(s, e) =>
              LET entity == project.schemas[s].entities[e]
                  structs == StructsAt(root, Leaf(s))
                  np == Len(entity.properties)
                  nn == IF opts.no_expand THEN 0 ELSE Len(entity.navigations)
              IN  /\ StructIndex(s, e) <= Len(structs)
                  /\ LET obj == structs[StructIndex(s, e)]
                     IN  /\ obj.name = entity.name
                         /\ Len(obj.fields) = np + nn
                         /\ \A i \in 1..np :
                               /\ WireName(obj.fields[i]) = entity.properties[i].name
                               /\ obj.fields[i].ty =
                                      edm_type_to_rust_type(entity.properties[i])
                         /\ \A j \in 1..nn :
                               WireName(obj.fields[np + j]) = entity.navigations[j].name
    /\ pc = "done" =>
          \A path \in DOMAIN root :
              Len(StructsAt(root, path)) = EntitiesBefore(Len(project.schemas), path)

\* C3, witness: a finished run over an entity with two differently named
\* properties and two differently named navigation properties, expansion
\* enabled
C3_Witness ==
    /\ pc = "done"
    /\ ~opts.no_expand
    /\ \E s \in SchemaIndices : \E e \in EntityIndices(s) :
          LET entity == project.schemas[s].entities[e]
          IN  /\ Len(entity.properties) = 2
              /\ entity.properties[1].name # entity.properties[2].name
              /\ Len(entity.navigations) = 2
              /\ entity.navigations[1].name # entity.navigations[2].name
              /\ Len(StructsAt(Unwrap(output), Leaf(s))[StructIndex(s, e)].fields) = 4

\* the structs of the generated tree
GeneratedStructs ==
    IF IsSome(output)
    THEN UNION {{StructsAt(Unwrap(output), path)[k] :
                    k \in 1..Len(StructsAt(Unwrap(output), path))} :
                path \in DOMAIN Unwrap(output)}
    ELSE {}

GeneratedImpls ==
    IF IsSome(output)
    THEN UNION {{ImplsAt(Unwrap(output), path)[k] :
                    k \in 1..Len(ImplsAt(Unwrap(output), path))} :
                path \in DOMAIN Unwrap(output)}
    ELSE {}

\* C5: no generated struct has a field whose identifier is the bare keyword
\* `type`: a name that lower-cases to it is emitted as r#type.
C5_NoBareKeyword ==
    \A obj \in GeneratedStructs : \A i \in 1..Len(obj.fields) :
        obj.fields[i].name # <<"pub ", "t", "y", "p", "e">>

\* C6: with no_serde set, no struct derives the serde traits and no field
\* carries a serde annotation.
C6_NoSerdeAnnotations ==
    opts.no_serde =>
        \A obj \in GeneratedStructs :
            /\ \A m \in 1..Len(obj.macros) : obj.macros[m] = "#[derive(Debug)]"
            /\ \A i \in 1..Len(obj.fields) : obj.fields[i].annotation = <<>>

\* the trailing segment of a qualified name, and the module path before it
TypeName(qualified) == split_dot(qualified)[Len(split_dot(qualified))]

TypeModule(qualified) == pop(PathSegments(qualified))

\* the qualified name is that of an entity type the document declares
DeclaredType(qualified) ==
    \E s \in SchemaIndices : \E e \in EntityIndices(s) :
        Qualified(project.schemas[s].namespace, project.schemas[s].entities[e].name)
            = qualified

\* C7: for every entity set over a declared entity type, the schema's module
\* imports, under crate:: and the entity type's lower-cased namespace path,
\* the entity type's own name, which is the name of a declared struct.
C7_EntitySetReexportsType ==
    IsSome(output) =>
        \A s \in SchemaIndices :
            IsSome(project.schemas[s].entity_sets) =>
                \A k \in 1..Len(Unwrap(project.schemas[s].entity_sets)) :
                    LET set == Unwrap(project.schemas[s].entity_sets)[k]
                        imports == Unwrap(output)[Leaf(s)].imports
                    IN  DeclaredType(set.entity_type) =>
                            \E i \in 1..Len(imports) :
                                /\ imports[i].path =
                                       <<"crate::">> \o join(TypeModule(set.entity_type), <<"::">>)
                                /\ imports[i].ty = TypeName(set.entity_type)
                                /\ \E obj \in GeneratedStructs : obj.name = imports[i].ty

\* C8: the wildcard import at the root names the module chain built for the
\* default schema's namespace.
C8_DefaultImportTargetsModule ==
    (IsSome(output) /\ IsSome(project.default_schema)) =>
        LET imports == Unwrap(output)[<<>>].imports
            target == Leaf(Unwrap(project.default_schema))
        IN  /\ target \in DOMAIN Unwrap(output)
            /\ \E i \in 1..Len(imports) :
                  /\ imports[i].ty = <<"*">>
                  /\ imports[i].path = join(target, <<"::">>)

\* C9: with expansion and serde annotations enabled, every navigation field
\* carries a rename to the navigation property's name with `default`, and is
\* Option<Box<T>> for multiplicity "0..1" and Vec<T> otherwise.
C9_NavigationFieldAnnotated ==
    (IsSome(output) /\ ~opts.no_expand /\ ~opts.no_serde) =>
        \A s \in SchemaIndices : \A e \in EntityIndices(s) :
            LET schema == project.schemas[s]
                entity == schema.entities[e]
                obj == StructsAt(Unwrap(output), Leaf(s))[StructIndex(s, e)]
            IN  \A j \in 1..Len(entity.navigations) :
                    LET field == obj.fields[Len(entity.properties) + j]
                        resolved == Unwrap(lookup_entity_type(schema, entity.navigations[j]))
                    IN  /\ \E a \in 1..Len(field.annotation) :
                              /\ field.annotation[a].serde = "rename"
                              /\ field.annotation[a].value = entity.navigations[j].name
                              /\ field.annotation[a].default
                        /\ field.ty =
                              IF resolved[2] = <<"0..1">>
                              THEN <<"Option<Box<">> \o resolved[1] \o <<">>">>
                              ELSE <<"Vec<">> \o resolved[1] \o <<">">>

\* C10: with no_expand set the run does not depend on the navigation data: it
\* never stops on a navigation property, and what it generates has no field
\* beyond the properties and no relation list.
C10_NoExpandIgnoresNavigations ==
    opts.no_expand =>
        /\ pc # "panicked"
        /\ \A impl \in GeneratedImpls : impl.relations = None
        /\ \A s \in SchemaIndices : \A e \in EntityIndices(s) :
              IsSome(output) =>
                  Len(StructsAt(Unwrap(output), Leaf(s))[StructIndex(s, e)].fields)
                      = Len(project.schemas[s].entities[e].properties)

=============================================================================
